---- MODULE Spec2Model ----
(***************************************************************************)
(* Vulkan backend of wgpu-hal: instance lifetime (from_raw, surface        *)
(* creation, Drop for InstanceShared) and the per-Surface swapchain        *)
(* controller (configure, unconfigure, acquire_texture, discard_texture).  *)
(* Source: wgpu-hal/src/vulkan/instance.rs.                                *)
(*                                                                         *)
(* Every handler is one action.  A handler's driver calls are recorded, in *)
(* order, in `calls`; the driver's own bookkeeping of the handles (fences, *)
(* native swapchains, messenger, instance) is folded over those calls by   *)
(* DriverRun, so the order and the number of calls are what the code       *)
(* issues, and nothing else changes the driver state.                      *)
(***************************************************************************)
EXTENDS Integers, Sequences, FiniteSets, TLC

VARIABLES
    target,        \* the compile target (cfg!(target_os)), fixed for a run
    instance,      \* the Instance value: "none" | "live" | "dropped"
    extensions,    \* Instance.extensions (the accepted extension set)
    flags,         \* InstanceShared.flags
    debug_utils,   \* InstanceShared.debug_utils: "None" | "Some"
    get_physical_device_properties, \* InstanceShared field: "None" | "Some"
    strong,        \* strong count of the Arc<InstanceShared>
    surfaces,      \* the live Surface values (ids)
    swapchain,     \* Surface.swapchain of Surface 1: NoSwapchain or a Swapchain
    driver,        \* the driver's view of every handle
    superseded,    \* swapchains replaced by a later successful configure
    op,            \* the handler that ran last, with its inputs
    calls,         \* the driver calls the last handler issued, in order
    ret,           \* what the last handler returned
    log            \* the log records the last handler wrote, in order

vars == <<target, instance, extensions, flags, debug_utils, get_physical_device_properties,
          strong, surfaces, swapchain, driver, superseded, op, calls, ret, log>>

\* What the actions on Surface 1 leave alone; none of them writes a log record.
instanceVars == <<target, instance, extensions, flags, debug_utils,
                  get_physical_device_properties, strong, surfaces, log>>

(***************************************************************************)
(* Bounds of the model.                                                    *)
(***************************************************************************)
MaxSwapchains == 3      \* swapchains one run creates
MaxImages == 2          \* images a swapchain holds at most
MaxSurfaces == 2        \* surfaces one Instance creates
MaxLabels == 2          \* labels of one kind attached to a diagnostic message
MaxCallbacks == 2       \* times the driver delivers one diagnostic message

(***************************************************************************)
(* Program constants.                                                      *)
(***************************************************************************)
IntelVendor == 32902            \* crate::auxil::db::intel::VENDOR, 0x8086
SanityBound == 256              \* 0x100
MILLIS_TO_NANOS == 1000000
API_VERSION_1_0 == 4194304      \* vk::API_VERSION_1_0 = 1 << 22
API_VERSION_1_1 == 4198400      \* (1 << 22) | (1 << 12)
VK_FALSE == 0                   \* vk::FALSE
OtherVendor == IntelVendor + 1  \* any vendor that is not Intel

NoSwapchain == [raw |-> 0]

SwapchainIds == 1 .. MaxSwapchains

Vendors == {IntelVendor, OtherVendor}

Configs == { [format |-> "Bgra8UnormSrgb", usage |-> "COLOR_TARGET"],
             [format |-> "Rgba8Unorm", usage |-> "COPY_DST"] }

\* The image sequences the driver may hand out for swapchain id: between one
\* and MaxImages handles of its own, <<id, n - 1>> first and <<id, 0>> last.
ImageSeqs(id) == { [k \in 1 .. n |-> <<id, n - k>>] : n \in 1 .. MaxImages }

\* Image indices the driver may report: in range, one past the range, and
\* the two sides of the sanity bound.
Indices == (0 .. MaxImages) \cup {SanityBound, SanityBound + 1}

Timeouts == {0, 1000}

AcquireErrors ==
    { "TIMEOUT", "NOT_READY", "ERROR_OUT_OF_DATE_KHR", "ERROR_SURFACE_LOST_KHR",
      "ERROR_DEVICE_LOST", "ERROR_OUT_OF_HOST_MEMORY" }

AcquireResults == {"SUCCESS", "SUBOPTIMAL_KHR"} \cup AcquireErrors

FenceResults == {"SUCCESS", "ERROR_DEVICE_LOST"}

CreateResults == {"SUCCESS", "ERROR_SURFACE_LOST_KHR", "ERROR_OUT_OF_DEVICE_MEMORY"}

(***************************************************************************)
(* The driver.  A call is [fn, h, arg, res, out]: the entry point, the      *)
(* handle it is given (0 when it takes none of the modelled handles), its  *)
(* argument (a timeout, the lists of an instance creation; 0 when none),   *)
(* the result the driver reports and the value it hands back (an image     *)
(* index, an enumerated list; 0 when none).                                *)
(***************************************************************************)
Call(fn, h, arg, res, out) == [fn |-> fn, h |-> h, arg |-> arg, res |-> res, out |-> out]

VoidCall(fn, h) == Call(fn, h, 0, "SUCCESS", 0)

DriverInit ==
    [ fence |-> [i \in SwapchainIds |-> "none"],
      fence_destroys |-> [i \in SwapchainIds |-> 0],
      swapchain |-> [i \in SwapchainIds |-> "none"],
      swapchain_destroys |-> [i \in SwapchainIds |-> 0],
      surface_creates |-> 0,
      surface_destroys |-> 0,
      messenger |-> "none",
      messenger_destroys |-> 0,
      instance |-> "none",
      instance_destroys |-> 0,
      teardown |-> << >> ]

\* What one call does to the handles.
DriverStep(d, c) ==
    CASE c.fn = "create_swapchain" /\ c.res = "SUCCESS" ->
            [d EXCEPT !.swapchain[c.h] = "live"]
      [] c.fn = "create_fence" ->
            [d EXCEPT !.fence[c.h] = "unsignaled"]
      [] c.fn = "destroy_fence" ->
            [d EXCEPT !.fence[c.h] = "destroyed",
                      !.fence_destroys[c.h] = @ + 1]
      [] c.fn = "destroy_swapchain" ->
            [d EXCEPT !.swapchain[c.h] = "destroyed",
                      !.swapchain_destroys[c.h] = @ + 1]
      [] c.fn = "acquire_next_image" /\ c.res \in {"SUCCESS", "SUBOPTIMAL_KHR"} ->
            [d EXCEPT !.fence[c.h] = "pending"]
      [] c.fn = "wait_for_fences" /\ c.res = "SUCCESS" ->
            [d EXCEPT !.fence[c.h] = "signaled"]
      [] c.fn = "reset_fences" /\ c.res = "SUCCESS" ->
            [d EXCEPT !.fence[c.h] = "unsignaled"]
      [] c.fn = "create_surface" /\ c.res = "SUCCESS" ->
            [d EXCEPT !.surface_creates = @ + 1]
      [] c.fn = "destroy_surface" ->
            [d EXCEPT !.surface_destroys = @ + 1]
      [] c.fn = "create_instance" /\ c.res = "SUCCESS" ->
            [d EXCEPT !.instance = "live"]
      [] c.fn = "create_debug_utils_messenger" /\ c.res = "SUCCESS" ->
            [d EXCEPT !.messenger = "live"]
      [] c.fn = "destroy_debug_utils_messenger" ->
            [d EXCEPT !.messenger = "destroyed",
                      !.messenger_destroys = @ + 1,
                      !.teardown = Append(@, c.fn)]
      [] c.fn = "destroy_instance" ->
            [d EXCEPT !.instance = "destroyed",
                      !.instance_destroys = @ + 1,
                      !.teardown = Append(@, c.fn)]
      [] OTHER -> d

RECURSIVE DriverRun(_, _)
DriverRun(d, cs) ==
    IF cs = << >> THEN d ELSE DriverRun(DriverStep(d, Head(cs)), Tail(cs))

(***************************************************************************)
(* Return values.                                                          *)
(***************************************************************************)
Unit == [kind |-> "Unit"]
OkUnit == [kind |-> "Ok"]
OkNone == [kind |-> "OkNone"]
OkSome(texture, suboptimal) ==
    [kind |-> "OkSome", texture |-> texture, suboptimal |-> suboptimal]
Err(e) == [kind |-> "Err", err |-> e]
Panic(why) == [kind |-> "Panic", why |-> why]

\* crate::SurfaceError
Outdated == [variant |-> "Outdated", code |-> ""]
Lost == [variant |-> "Lost", code |-> ""]
\* crate::DeviceError::from(vk::Result), wrapped into SurfaceError::Device
DeviceError_from(code) == [variant |-> "Device", code |-> code]

(***************************************************************************)
(* Swapchain::release_resources: wait for the device to idle (the result   *)
(* is dropped), destroy the fence, hand the swapchain back.                *)
(***************************************************************************)
\* Faulty variant: release_resources that forgets the fence.
release_resources_keeps_fence(sc, idle) ==
    << Call("device_wait_idle", 0, 0, idle, 0) >>

release_resources(sc, idle) ==
    << Call("device_wait_idle", 0, 0, idle, 0), VoidCall("destroy_fence", sc.fence) >>

(***************************************************************************)
(* Device::create_swapchain(surface, config, old).  r holds what the       *)
(* driver answers: r.id the handle it allots, r.create the result of the   *)
(* creation call, r.images the image sequence, r.release_on_failure        *)
(* whether a failed creation still releases the previous swapchain.        *)
(***************************************************************************)
create_swapchain(vendor_id, config, old, r) ==
    LET ok == r.create = "SUCCESS"
        created == << Call("create_swapchain", r.id, old.raw, r.create, 0) >>
        released == IF old.raw # 0 /\ (ok \/ r.release_on_failure)
                    THEN << VoidCall("destroy_swapchain", old.raw) >>
                    ELSE << >>
        fenced == IF ok THEN << VoidCall("create_fence", r.id) >> ELSE << >>
    IN  [ ok |-> ok,
          calls |-> created \o released \o fenced,
          swapchain |-> [ raw |-> r.id, fence |-> r.id, images |-> r.images,
                          config |-> config, vendor_id |-> vendor_id ],
          err |-> IF r.create = "ERROR_SURFACE_LOST_KHR"
                  THEN Lost ELSE DeviceError_from(r.create) ]

(***************************************************************************)
(* Surface::configure                                                      *)
(***************************************************************************)
\* Faulty variant: configure that puts the old swapchain back when creation fails.
configure_keeps_old(sc, vendor_id, config, r) ==
    LET drained == IF sc # NoSwapchain THEN release_resources(sc, r.idle) ELSE << >>
        new == create_swapchain(vendor_id, config, sc, r)
    IN  [ calls |-> drained \o new.calls,
          swapchain |-> IF new.ok THEN new.swapchain ELSE sc,
          ret |-> IF new.ok THEN OkUnit ELSE Err(new.err) ]

configure(sc, vendor_id, config, r) ==
    LET drained == IF sc # NoSwapchain THEN release_resources(sc, r.idle) ELSE << >>
        new == create_swapchain(vendor_id, config, sc, r)
    IN  [ calls |-> drained \o new.calls,
          swapchain |-> IF new.ok THEN new.swapchain ELSE NoSwapchain,
          ret |-> IF new.ok THEN OkUnit ELSE Err(new.err) ]

(***************************************************************************)
(* Surface::unconfigure                                                    *)
(***************************************************************************)
\* Faulty variant: unconfigure that destroys the native swapchain before draining it.
unconfigure_destroys_first(sc, r) ==
    IF sc # NoSwapchain
    THEN [ calls |-> << VoidCall("destroy_swapchain", sc.raw) >>
                        \o release_resources(sc, r.idle),
           swapchain |-> NoSwapchain,
           ret |-> Unit ]
    ELSE [ calls |-> << >>, swapchain |-> sc, ret |-> Unit ]

\* Faulty variant: unconfigure that releases the swapchain and leaves it in
\* the Surface.
unconfigure_without_take(sc, r) ==
    IF sc # NoSwapchain
    THEN [ calls |-> release_resources(sc, r.idle)
                        \o << VoidCall("destroy_swapchain", sc.raw) >>,
           swapchain |-> sc,
           ret |-> Unit ]
    ELSE [ calls |-> << >>, swapchain |-> sc, ret |-> Unit ]

unconfigure(sc, r) ==
    IF sc # NoSwapchain
    THEN [ calls |-> release_resources(sc, r.idle)
                        \o << VoidCall("destroy_swapchain", sc.raw) >>,
           swapchain |-> NoSwapchain,
           ret |-> Unit ]
    ELSE [ calls |-> << >>, swapchain |-> sc, ret |-> Unit ]

(***************************************************************************)
(* Surface::acquire_texture                                                *)
(***************************************************************************)
\* The match on the error of acquire_next_image.
\* Faulty variant: the match with NOT_READY in the TIMEOUT arm.
AcquireErrorOutcome_not_ready_as_timeout(error) ==
    CASE error \in {"TIMEOUT", "NOT_READY"} -> OkNone
      [] error = "ERROR_OUT_OF_DATE_KHR" -> Err(Outdated)
      [] error = "ERROR_SURFACE_LOST_KHR" -> Err(Lost)
      [] OTHER -> Err(DeviceError_from(error))

AcquireErrorOutcome(error) ==
    CASE error = "TIMEOUT" -> OkNone
      [] error \in {"NOT_READY", "ERROR_OUT_OF_DATE_KHR"} -> Err(Outdated)
      [] error = "ERROR_SURFACE_LOST_KHR" -> Err(Lost)
      [] OTHER -> Err(DeviceError_from(error))

\* The special case for Intel returning bizarre indices.
\* Faulty variant: the guard with >= for >.
IntelGuard_inclusive(vendor_id, index) ==
    vendor_id = IntelVendor /\ index >= SanityBound

IntelGuard(vendor_id, index) == vendor_id = IntelVendor /\ index > SanityBound

\* super::SurfaceTexture built from the acquired index.
\* Faulty variant: the texture taken from the wrong end of the image sequence.
SurfaceTexture_by_handle(sc, index) ==
    [ index |-> index,
      raw |-> sc.images[Len(sc.images) - index],
      usage |-> sc.config.usage,
      aspects |-> "COLOR",
      format |-> sc.config.format ]

SurfaceTexture(sc, index) ==
    [ index |-> index,
      raw |-> sc.images[index + 1],
      usage |-> sc.config.usage,
      aspects |-> "COLOR",
      format |-> sc.config.format ]

\* The conversion of the caller's milliseconds to the driver's nanoseconds.
\* Faulty variant: the conversion with a floor of one millisecond.
timeout_ns_at_least_one(timeout_ms) ==
    (IF timeout_ms = 0 THEN 1 ELSE timeout_ms) * MILLIS_TO_NANOS

timeout_ns(timeout_ms) == timeout_ms * MILLIS_TO_NANOS

\* wait_for_fences(fences, true, !0)?; reset_fences(fences)?
\* Faulty variant: the wait without the reset.
fence_sync_without_reset(sc, r) ==
    LET wait == Call("wait_for_fences", sc.fence, 0 - 1, r.wait, 0)
    IN  IF r.wait # "SUCCESS"
        THEN [ ok |-> FALSE, calls |-> << wait >>, err |-> DeviceError_from(r.wait) ]
        ELSE [ ok |-> TRUE, calls |-> << wait >>, err |-> Outdated ]

fence_sync(sc, r) ==
    LET wait == Call("wait_for_fences", sc.fence, 0 - 1, r.wait, 0)
        reset == Call("reset_fences", sc.fence, 0, r.reset, 0)
    IN  IF r.wait # "SUCCESS"
        THEN [ ok |-> FALSE, calls |-> << wait >>, err |-> DeviceError_from(r.wait) ]
        ELSE IF r.reset # "SUCCESS"
        THEN [ ok |-> FALSE, calls |-> << wait, reset >>,
               err |-> DeviceError_from(r.reset) ]
        ELSE [ ok |-> TRUE, calls |-> << wait, reset >>, err |-> Outdated ]

\* The body of acquire_texture past the unwrap, on the swapchain sc.
acquire_configured(sc, timeout_ms, r) ==
    LET acquired == r.acquire \in {"SUCCESS", "SUBOPTIMAL_KHR"}
        index == r.index
        suboptimal == r.acquire = "SUBOPTIMAL_KHR"
        acq == Call("acquire_next_image", sc.fence, timeout_ns(timeout_ms), r.acquire,
                    IF acquired THEN index ELSE 0)
        sync == fence_sync(sc, r)
    IN  IF ~acquired
        THEN [ calls |-> << acq >>, ret |-> AcquireErrorOutcome(r.acquire) ]
        ELSE IF IntelGuard(sc.vendor_id, index)
        THEN [ calls |-> << acq >>, ret |-> Err(Outdated) ]
        ELSE IF ~sync.ok
        THEN [ calls |-> << acq >> \o sync.calls, ret |-> Err(sync.err) ]
        ELSE IF index >= Len(sc.images)
        THEN [ calls |-> << acq >> \o sync.calls,
               ret |-> Panic("index out of bounds") ]
        ELSE [ calls |-> << acq >> \o sync.calls,
               ret |-> OkSome(SurfaceTexture(sc, index), suboptimal) ]

\* self.swapchain.as_mut().unwrap(): the unwrap panics on None, before any
\* driver call.
\* Faulty variant: the acquisition that goes to the driver with a null fence
\* when there is no swapchain.
acquire_texture_unchecked(sc, timeout_ms, r) ==
    IF sc = NoSwapchain
    THEN [ calls |-> << Call("acquire_next_image", 0, timeout_ns(timeout_ms),
                             "ERROR_SURFACE_LOST_KHR", 0) >>,
           ret |-> Err(Lost) ]
    ELSE acquire_configured(sc, timeout_ms, r)

acquire_texture(sc, timeout_ms, r) ==
    IF sc = NoSwapchain
    THEN [ calls |-> << >>, ret |-> Panic("unwrap on None") ]
    ELSE acquire_configured(sc, timeout_ms, r)

(***************************************************************************)
(* Surface::discard_texture: an empty body.                                *)
(***************************************************************************)
\* Faulty variant: the discard that drops the swapchain of the Surface.
discard_texture_forgets_swapchain(sc) ==
    [ calls |-> << >>, swapchain |-> NoSwapchain, ret |-> Unit ]

discard_texture(sc) == [ calls |-> << >>, swapchain |-> sc, ret |-> Unit ]

(***************************************************************************)
(* Instance side.                                                          *)
(***************************************************************************)
InstanceError == [variant |-> "InstanceError", code |-> ""]

Targets == {"linux", "android", "windows", "macos"}

InstanceFlags == {"DEBUG", "VALIDATION"}

DebugUtilsName == "VK_EXT_debug_utils"
StorageBufferStorageClassName == "VK_KHR_storage_buffer_storage_class"
GetPhysicalDeviceProperties2Name == "VK_KHR_get_physical_device_properties2"

\* The platform surface extension each window-handle variant needs.
SurfaceExtension(token) ==
    CASE token = "Wayland" -> "VK_KHR_wayland_surface"
      [] token = "Xlib" -> "VK_KHR_xlib_surface"
      [] token = "Xcb" -> "VK_KHR_xcb_surface"
      [] token = "Android" -> "VK_KHR_android_surface"
      [] token = "Windows" -> "VK_KHR_win32_surface"
      [] token = "MacOS" -> "VK_EXT_metal_surface"

Tokens == {"Wayland", "Xlib", "Xcb", "Android", "Windows", "MacOS"}

\* The window-handle variants whose match arm is compiled in for a target.
TargetTokens(t) ==
    CASE t = "linux" -> {"Wayland", "Xlib", "Xcb"}
      [] t = "android" -> {"Android"}
      [] t = "windows" -> {"Windows"}
      [] t = "macos" -> {"MacOS"}

\* The extension lists a caller hands to from_raw on a target.
ExtensionLists(t) ==
    { {"VK_KHR_surface"} \cup wsi \cup opt :
        wsi \in SUBSET { SurfaceExtension(k) : k \in TargetTokens(t) },
        opt \in SUBSET { DebugUtilsName, StorageBufferStorageClassName,
                         GetPhysicalDeviceProperties2Name } }

DriverResults == {"SUCCESS", "ERROR_OUT_OF_HOST_MEMORY"}

\* log::warn!, log::info!, log::log!: one record of the log, its level and
\* what it says: the fixed text first, then the values formatted into it.
LogRecord(level, what) == [level |-> level, what |-> what]

(***************************************************************************)
(* Instance::from_raw.  r.messenger is the driver's answer to the          *)
(* messenger creation call.                                                *)
(***************************************************************************)
\* The test from_raw rejects on: the oldest version without the storage
\* buffer storage class extension.
\* Faulty variant: the test with `<` for `==`.
MissingStorageClass_below_oldest(driver_api_version, exts) ==
    /\ driver_api_version < API_VERSION_1_0
    /\ StorageBufferStorageClassName \notin exts

MissingStorageClass(driver_api_version, exts) ==
    /\ driver_api_version = API_VERSION_1_0
    /\ StorageBufferStorageClassName \notin exts

from_raw(driver_api_version, exts, fl, r) ==
    IF MissingStorageClass(driver_api_version, exts)
    THEN [ ok |-> FALSE, calls |-> << >>, ret |-> Err(InstanceError),
           log |-> << LogRecord("Warn", << "extension is not supported",
                                          StorageBufferStorageClassName >>) >>,
           debug_utils |-> "None", get_physical_device_properties |-> "None" ]
    ELSE IF DebugUtilsName \in exts /\ r.messenger # "SUCCESS"
    THEN [ ok |-> FALSE,
           calls |-> << Call("create_debug_utils_messenger", 0, 0, r.messenger, 0) >>,
           ret |-> Panic("unwrap on Err"), log |-> << >>,
           debug_utils |-> "None", get_physical_device_properties |-> "None" ]
    ELSE [ ok |-> TRUE, log |-> << >>,
           calls |-> IF DebugUtilsName \in exts
                     THEN << Call("create_debug_utils_messenger", 0, 0, r.messenger, 0) >>
                     ELSE << >>,
           ret |-> OkUnit,
           debug_utils |-> IF DebugUtilsName \in exts THEN "Some" ELSE "None",
           get_physical_device_properties |->
               IF GetPhysicalDeviceProperties2Name \in exts THEN "Some" ELSE "None" ]

(***************************************************************************)
(* Drop for InstanceShared, run by the Arc when its last holder goes.      *)
(***************************************************************************)
\* Faulty variant: the drop that destroys the instance before the messenger.
drop_InstanceShared_instance_first(du) ==
    << VoidCall("destroy_instance", 0) >>
        \o (IF du = "Some" THEN << VoidCall("destroy_debug_utils_messenger", 0) >>
            ELSE << >>)

drop_InstanceShared(du) ==
    (IF du = "Some" THEN << VoidCall("destroy_debug_utils_messenger", 0) >> ELSE << >>)
        \o << VoidCall("destroy_instance", 0) >>

\* Dropping one holder of the Arc: the count falls, and the value is dropped
\* with the last one.
Arc_drop(n, du) ==
    [ strong |-> n - 1,
      calls |-> IF n - 1 = 0 THEN drop_InstanceShared(du) ELSE << >>,
      debug_utils |-> IF n - 1 = 0 THEN "None" ELSE du ]

(***************************************************************************)
(* Instance::create_surface_from_vk_surface_khr: the Surface takes a clone *)
(* of the Arc and starts with no swapchain.                                *)
(***************************************************************************)
\* Faulty variant: the Surface built without cloning the Arc.
create_surface_from_vk_surface_khr_borrowed(n) ==
    [ strong |-> n, swapchain |-> NoSwapchain ]

create_surface_from_vk_surface_khr(n) ==
    [ strong |-> n + 1, swapchain |-> NoSwapchain ]

(***************************************************************************)
(* Instance::create_surface and the per-platform constructors it calls.    *)
(* r.create is the driver's answer to the surface creation call.           *)
(***************************************************************************)
\* create_surface_from_xlib / _xcb / _wayland / _hwnd: panic without the
\* extension; create_surface_android / _from_ns_view: no check.
PlatformConstructor(token, exts, r) ==
    IF token \in {"Xlib", "Xcb", "Wayland", "Windows"}
       /\ SurfaceExtension(token) \notin exts
    THEN [ ok |-> FALSE, calls |-> << >>, ret |-> Panic("extension not supported") ]
    ELSE IF r.create # "SUCCESS"
    THEN [ ok |-> FALSE,
           calls |-> << Call("create_surface", 0, 0, r.create, 0) >>,
           ret |-> Panic("surface creation failed") ]
    ELSE [ ok |-> TRUE,
           calls |-> << Call("create_surface", 0, 0, r.create, 0) >>,
           ret |-> OkUnit ]

\* The match of create_surface: the arms compiled in for the target, the
\* guards of the Wayland, Xlib, Xcb and MacOS arms, and the `_` arm.
create_surface(t, token, exts, r) ==
    IF token \in TargetTokens(t)
       /\ (token \in {"Wayland", "Xlib", "Xcb", "MacOS"}
              => SurfaceExtension(token) \in exts)
    THEN PlatformConstructor(token, exts, r)
    ELSE [ ok |-> FALSE, calls |-> << >>, ret |-> Err(InstanceError) ]

\* Instance::destroy_surface
destroy_surface == << VoidCall("destroy_surface", 0) >>

(***************************************************************************)
(* The actions of the instance's lifetime.                                 *)
(***************************************************************************)
surfaceVars == <<swapchain, superseded>>

FromRaw ==
    /\ instance = "none"
    /\ \E driver_api_version \in {API_VERSION_1_0, API_VERSION_1_1},
          exts \in ExtensionLists(target), fl \in SUBSET InstanceFlags :
       \E messenger \in IF DebugUtilsName \in exts THEN DriverResults ELSE {"SUCCESS"} :
       \E out \in { from_raw(driver_api_version, exts, fl, [messenger |-> messenger]) } :
          /\ instance' = IF out.ok THEN "live" ELSE "failed"
          /\ extensions' = IF out.ok THEN exts ELSE extensions
          /\ flags' = IF out.ok THEN fl ELSE flags
          /\ debug_utils' = out.debug_utils
          /\ get_physical_device_properties' = out.get_physical_device_properties
          /\ strong' = IF out.ok THEN 1 ELSE 0
          /\ calls' = out.calls
          /\ ret' = out.ret
          /\ driver' = DriverRun(driver, out.calls)
          /\ log' = out.log
          /\ op' = [name |-> "from_raw", driver_api_version |-> driver_api_version,
                    extensions |-> exts, flags |-> fl]
    /\ UNCHANGED <<target, surfaces, surfaceVars>>

CreateSurface ==
    /\ instance = "live"
    /\ driver.surface_creates < MaxSurfaces
    /\ \E token \in Tokens, create \in DriverResults :
       \E out \in { create_surface(target, token, extensions, [create |-> create]) } :
       \E new \in { create_surface_from_vk_surface_khr(strong) } :
          /\ surfaces' = IF out.ok
                         THEN surfaces \cup {driver.surface_creates + 1}
                         ELSE surfaces
          /\ strong' = IF out.ok THEN new.strong ELSE strong
          /\ calls' = out.calls
          /\ ret' = out.ret
          /\ driver' = DriverRun(driver, out.calls)
          /\ op' = [name |-> "create_surface", token |-> token]
          /\ log' = << >>
    /\ UNCHANGED <<target, instance, extensions, flags, debug_utils,
                   get_physical_device_properties, surfaceVars>>

\* destroy_surface(&self, surface): the driver call, then the Surface value
\* goes out of scope: it lets go of its Arc, and its swapchain field goes
\* with it (a Swapchain has no destructor; release_resources is the only
\* code that frees what it holds).
DestroySurface ==
    /\ instance = "live"
    /\ \E s \in surfaces :
       \E out \in { Arc_drop(strong, debug_utils) } :
          /\ surfaces' = surfaces \ {s}
          /\ strong' = out.strong
          /\ calls' = destroy_surface \o out.calls
          /\ driver' = DriverRun(driver, destroy_surface \o out.calls)
          /\ ret' = Unit
          /\ debug_utils' = out.debug_utils
          /\ swapchain' = IF s = 1 THEN NoSwapchain ELSE swapchain
          /\ op' = [name |-> "destroy_surface", surface |-> s,
                    swapchain |-> IF s = 1 THEN swapchain ELSE NoSwapchain]
          /\ log' = << >>
    /\ UNCHANGED <<target, instance, extensions, flags,
                   get_physical_device_properties, superseded>>

\* A Surface value dropped by its owner.
DropSurface ==
    /\ \E s \in surfaces :
       \E out \in { Arc_drop(strong, debug_utils) } :
          /\ surfaces' = surfaces \ {s}
          /\ strong' = out.strong
          /\ calls' = out.calls
          /\ driver' = DriverRun(driver, out.calls)
          /\ ret' = Unit
          /\ debug_utils' = out.debug_utils
          /\ op' = [name |-> "drop_surface", surface |-> s]
          /\ log' = << >>
    /\ UNCHANGED <<target, instance, extensions, flags,
                   get_physical_device_properties, surfaceVars>>

\* The Instance value dropped by its owner.
DropInstance ==
    /\ instance = "live"
    /\ \E out \in { Arc_drop(strong, debug_utils) } :
          /\ instance' = "dropped"
          /\ strong' = out.strong
          /\ calls' = out.calls
          /\ driver' = DriverRun(driver, out.calls)
          /\ ret' = Unit
          /\ debug_utils' = out.debug_utils
          /\ op' = [name |-> "drop_instance"]
          /\ log' = << >>
    /\ UNCHANGED <<target, extensions, flags,
                   get_physical_device_properties, surfaces, surfaceVars>>

\* A raw driver instance exists and no Instance has adopted it yet.
InitInstance ==
    /\ target \in Targets
    /\ instance = "none"
    /\ extensions = {}
    /\ flags = {}
    /\ debug_utils = "None"
    /\ get_physical_device_properties = "None"
    /\ strong = 0
    /\ surfaces = {}
    /\ swapchain = NoSwapchain
    /\ driver = [DriverInit EXCEPT !.instance = "live"]
    /\ superseded = {}
    /\ op = [name |-> "none"]
    /\ calls = << >>
    /\ ret = Unit
    /\ log = << >>

NextInstance == FromRaw \/ CreateSurface \/ DestroySurface \/ DropSurface \/ DropInstance

SpecInstance == InitInstance /\ [][NextInstance]_vars

(***************************************************************************)
(* Instance::required_extensions and Instance::init.                       *)
(***************************************************************************)
OkValue(v) == [kind |-> "Ok", value |-> v]

ValidationLayerName == "VK_LAYER_KHRONOS_validation"

\* What a loader may enumerate on a target: the extensions this backend asks
\* for and one it never asks for; the validation layer and one other layer.
KnownExtensions(t) ==
    {"VK_KHR_surface"} \cup { SurfaceExtension(k) : k \in TargetTokens(t) }
        \cup { DebugUtilsName, GetPhysicalDeviceProperties2Name,
               StorageBufferStorageClassName, "VK_KHR_display" }

KnownLayers == { ValidationLayerName, "VK_LAYER_LUNARG_api_dump" }

\* The elements of a Vec, for `contains` and `iter().any`.
Elems(list) == { list[k] : k \in 1 .. Len(list) }

\* The platform-specific WSI extensions, in the order they are pushed.
PlatformExtensions(t) ==
    CASE t = "linux" -> << "VK_KHR_xlib_surface", "VK_KHR_xcb_surface",
                           "VK_KHR_wayland_surface" >>
      [] t = "android" -> << "VK_KHR_android_surface" >>
      [] t = "windows" -> << "VK_KHR_win32_surface" >>
      [] t = "macos" -> << "VK_EXT_metal_surface" >>

\* The extensions pushed before the retain.
WantedExtensions(t, driver_api_version, fl) ==
    << "VK_KHR_surface" >> \o PlatformExtensions(t)
        \o (IF "DEBUG" \in fl THEN << DebugUtilsName >> ELSE << >>)
        \o << GetPhysicalDeviceProperties2Name >>
        \o (IF driver_api_version = API_VERSION_1_0
            THEN << StorageBufferStorageClassName >> ELSE << >>)

\* The layers pushed before the retain.
WantedLayers(fl) ==
    IF "VALIDATION" \in fl THEN << ValidationLayerName >> ELSE << >>

\* Vec::retain against an enumerated list: the entries kept, in order, and
\* one log record for each entry dropped.
\* Faulty variant: the retain that keeps every entry.
Retain_everything(list, available, level, what) ==
    [ kept |-> list, log |-> << >> ]

\* Faulty variant: the retain that never drops the first entry.
Retain_keeps_first(list, available, level, what) ==
    LET Found(e) == e \in available \/ e = Head(list)
        Missing(e) == e \notin available /\ e # Head(list)
        dropped == SelectSeq(list, Missing)
    IN  [ kept |-> SelectSeq(list, Found),
          log |-> [k \in 1 .. Len(dropped) |-> LogRecord(level, << what, dropped[k] >>)] ]

Retain(list, available, level, what) ==
    LET Found(e) == e \in available
        Missing(e) == e \notin available
        dropped == SelectSeq(list, Missing)
    IN  [ kept |-> SelectSeq(list, Found),
          log |-> [k \in 1 .. Len(dropped) |-> LogRecord(level, << what, dropped[k] >>)] ]

\* r.extensions is the loader's answer to the extension enumeration and
\* r.instance_extensions the list it hands back.
\* Faulty variant: the negotiation that fails when the storage buffer storage
\* class extension is missing on the oldest version.
required_extensions_strict(t, driver_api_version, fl, r) ==
    LET enum == Call("enumerate_instance_extension_properties", 0, 0, r.extensions,
                     IF r.extensions = "SUCCESS" THEN r.instance_extensions ELSE {})
        kept == Retain(WantedExtensions(t, driver_api_version, fl),
                       r.instance_extensions, "Info", "Unable to find extension")
    IN  IF r.extensions # "SUCCESS"
           \/ MissingStorageClass(driver_api_version, r.instance_extensions)
        THEN [ ok |-> FALSE, calls |-> << enum >>, ret |-> Err(InstanceError),
               log |-> << >>, extensions |-> << >> ]
        ELSE [ ok |-> TRUE, calls |-> << enum >>, ret |-> OkValue(kept.kept),
               log |-> kept.log, extensions |-> kept.kept ]

\* Faulty variant: the negotiation that takes a failed enumeration for an
\* empty list.
required_extensions_lenient(t, driver_api_version, fl, r) ==
    LET enum == Call("enumerate_instance_extension_properties", 0, 0, r.extensions,
                     IF r.extensions = "SUCCESS" THEN r.instance_extensions ELSE {})
        kept == Retain(WantedExtensions(t, driver_api_version, fl),
                       IF r.extensions = "SUCCESS" THEN r.instance_extensions ELSE {},
                       "Info", "Unable to find extension")
    IN  [ ok |-> TRUE, calls |-> << enum >>, ret |-> OkValue(kept.kept),
          log |-> kept.log, extensions |-> kept.kept ]

required_extensions(t, driver_api_version, fl, r) ==
    LET enum == Call("enumerate_instance_extension_properties", 0, 0, r.extensions,
                     IF r.extensions = "SUCCESS" THEN r.instance_extensions ELSE {})
        kept == Retain(WantedExtensions(t, driver_api_version, fl),
                       r.instance_extensions, "Info", "Unable to find extension")
    IN  IF r.extensions # "SUCCESS"
        THEN [ ok |-> FALSE, calls |-> << enum >>, ret |-> Err(InstanceError),
               log |-> << LogRecord("Info", << "enumerate_instance_extension_properties",
                                               r.extensions >>) >>,
               extensions |-> << >> ]
        ELSE [ ok |-> TRUE, calls |-> << enum >>, ret |-> OkValue(kept.kept),
               log |-> kept.log, extensions |-> kept.kept ]

\* The version init goes on with: the loader's answer, or the oldest version
\* when the loader has no version query.
DriverApiVersion(version) ==
    IF version = "None" THEN API_VERSION_1_0 ELSE API_VERSION_1_1

\* What init returns before it has an Instance.
InitFailure(cs, ret_, log_) ==
    [ ok |-> FALSE, calls |-> cs, ret |-> ret_, log |-> log_, extensions |-> {},
      flags |-> {}, debug_utils |-> "None", get_physical_device_properties |-> "None" ]

\* Instance::init.  desc is the descriptor (its flags, and whether its name
\* holds a NUL byte); r holds the answers of the loader and the driver:
\* r.entry to loading the entry points, r.version to the version query
\* ("None" when the loader has no such query), r.extensions and
\* r.instance_extensions to the extension enumeration, r.layers and
\* r.instance_layers to the layer enumeration, r.create to the instance
\* creation, r.messenger to the messenger creation.  The argument recorded
\* for the instance creation is its two lists of names; the application
\* info is left out.
init(t, desc, r) ==
    LET driver_api_version == DriverApiVersion(r.version)
        version == IF r.version = "None" THEN << >>
                   ELSE << Call("enumerate_instance_version", 0, 0,
                                IF r.version = "Err" THEN "ERROR_OUT_OF_HOST_MEMORY"
                                ELSE "SUCCESS",
                                IF r.version = "Err" THEN 0 ELSE API_VERSION_1_1) >>
        req == required_extensions(t, driver_api_version, desc.flags, r)
        enum_layers == Call("enumerate_instance_layer_properties", 0, 0, r.layers,
                            IF r.layers = "SUCCESS" THEN r.instance_layers ELSE {})
        layers == Retain(WantedLayers(desc.flags), r.instance_layers,
                         "Warn", "Unable to find layer")
        create == Call("create_instance", 0,
                       [layers |-> layers.kept, extensions |-> req.extensions],
                       r.create, 0)
        made == from_raw(driver_api_version, Elems(req.extensions), desc.flags, r)
    IN  IF r.entry # "Ok"
        THEN InitFailure(<< >>, Err(InstanceError),
                         << LogRecord("Info", << "Missing Vulkan entry points",
                                                 r.entry >>) >>)
        ELSE IF r.version = "Err"
        THEN InitFailure(version, Err(InstanceError),
                         << LogRecord("Warn", << "try_enumerate_instance_version",
                                                 "ERROR_OUT_OF_HOST_MEMORY" >>) >>)
        ELSE IF desc.name_nul
        THEN InitFailure(version, Panic("unwrap on Err"), << >>)
        ELSE IF ~req.ok
        THEN InitFailure(version \o req.calls, req.ret, req.log)
        ELSE IF r.layers # "SUCCESS"
        THEN InitFailure(version \o req.calls \o << enum_layers >>, Err(InstanceError),
                         req.log \o << LogRecord("Info",
                                                 << "enumerate_instance_layer_properties",
                                                    r.layers >>) >>)
        ELSE IF r.create # "SUCCESS"
        THEN InitFailure(version \o req.calls \o << enum_layers, create >>,
                         Err(InstanceError),
                         req.log \o layers.log
                             \o << LogRecord("Warn", << "create_instance", r.create >>) >>)
        ELSE [ ok |-> made.ok,
               calls |-> version \o req.calls \o << enum_layers, create >> \o made.calls,
               ret |-> made.ret,
               log |-> req.log \o layers.log \o made.log,
               extensions |-> IF made.ok THEN Elems(req.extensions) ELSE {},
               flags |-> IF made.ok THEN desc.flags ELSE {},
               debug_utils |-> made.debug_utils,
               get_physical_device_properties |-> made.get_physical_device_properties ]

(***************************************************************************)
(* The negotiation at start-up.  A run negotiates once: through init, or   *)
(* through required_extensions alone when the caller creates the raw       *)
(* instance itself and hands it to from_raw.                               *)
(***************************************************************************)
negotiationVars == <<target, surfaces, swapchain, superseded>>

RequiredExtensions ==
    /\ instance = "none"
    /\ op.name = "none"
    /\ \E driver_api_version \in {API_VERSION_1_0, API_VERSION_1_1},
          fl \in SUBSET InstanceFlags, res \in DriverResults :
       \E instance_extensions \in IF res = "SUCCESS"
                                  THEN SUBSET KnownExtensions(target) ELSE {{}} :
       \E out \in { required_extensions(target, driver_api_version, fl,
                        [extensions |-> res,
                         instance_extensions |-> instance_extensions]) } :
          /\ calls' = out.calls
          /\ ret' = out.ret
          /\ log' = out.log
          /\ driver' = DriverRun(driver, out.calls)
          /\ op' = [name |-> "required_extensions",
                    driver_api_version |-> driver_api_version, flags |-> fl]
    /\ UNCHANGED <<negotiationVars, instance, extensions, flags, debug_utils,
                   get_physical_device_properties, strong>>

\* The loader and the driver answer only the calls that are made.
InstanceInit ==
    /\ instance = "none"
    /\ op.name = "none"
    /\ \E fl \in SUBSET InstanceFlags, entry \in {"Ok", "Err"} :
       \E version \in IF entry = "Ok" THEN {"None", "Some", "Err"} ELSE {"None"} :
       \E name_nul \in IF entry = "Ok" /\ version # "Err" THEN BOOLEAN ELSE {FALSE} :
       \E ext_res \in IF entry = "Ok" /\ version # "Err" /\ ~name_nul
                       THEN DriverResults ELSE {"SUCCESS"} :
       \E instance_extensions \in
              IF entry = "Ok" /\ version # "Err" /\ ~name_nul /\ ext_res = "SUCCESS"
              THEN SUBSET KnownExtensions(target) ELSE {{}} :
       \E layer_res \in
              IF entry = "Ok" /\ version # "Err" /\ ~name_nul /\ ext_res = "SUCCESS"
              THEN DriverResults ELSE {"SUCCESS"} :
       \E instance_layers \in
              IF entry = "Ok" /\ version # "Err" /\ ~name_nul /\ ext_res = "SUCCESS"
                 /\ layer_res = "SUCCESS"
              THEN SUBSET KnownLayers ELSE {{}} :
       \E create \in
              IF entry = "Ok" /\ version # "Err" /\ ~name_nul /\ ext_res = "SUCCESS"
                 /\ layer_res = "SUCCESS"
              THEN DriverResults ELSE {"SUCCESS"} :
       \E messenger \in
              IF entry = "Ok" /\ version # "Err" /\ ~name_nul /\ ext_res = "SUCCESS"
                 /\ layer_res = "SUCCESS" /\ create = "SUCCESS"
                 /\ "DEBUG" \in fl /\ DebugUtilsName \in instance_extensions
                 /\ ~MissingStorageClass(DriverApiVersion(version), instance_extensions)
              THEN DriverResults ELSE {"SUCCESS"} :
       \E desc \in { [flags |-> fl, name_nul |-> name_nul] },
          r \in { [entry |-> entry, version |-> version, extensions |-> ext_res,
                   instance_extensions |-> instance_extensions, layers |-> layer_res,
                   instance_layers |-> instance_layers, create |-> create,
                   messenger |-> messenger] } :
       \E out \in { init(target, desc, r) } :
          /\ instance' = IF out.ok THEN "live" ELSE "failed"
          /\ extensions' = out.extensions
          /\ flags' = out.flags
          /\ debug_utils' = out.debug_utils
          /\ get_physical_device_properties' = out.get_physical_device_properties
          /\ strong' = IF out.ok THEN 1 ELSE 0
          /\ calls' = out.calls
          /\ ret' = out.ret
          /\ log' = out.log
          /\ driver' = DriverRun(driver, out.calls)
          /\ op' = [name |-> "init", desc |-> desc, r |-> r]
    /\ UNCHANGED negotiationVars

\* The process before it has touched the loader.
InitLoader ==
    /\ target \in Targets
    /\ instance = "none"
    /\ extensions = {}
    /\ flags = {}
    /\ debug_utils = "None"
    /\ get_physical_device_properties = "None"
    /\ strong = 0
    /\ surfaces = {}
    /\ swapchain = NoSwapchain
    /\ driver = DriverInit
    /\ superseded = {}
    /\ op = [name |-> "none"]
    /\ calls = << >>
    /\ ret = Unit
    /\ log = << >>

NextInit == RequiredExtensions \/ InstanceInit

SpecInit == InitLoader /\ [][NextInit]_vars

(***************************************************************************)
(* debug_utils_messenger_callback, the function the driver calls with      *)
(* every diagnostic message while the messenger is registered.             *)
(***************************************************************************)
\* A C string pointer: null, or pointing at a string.
NullPtr == [null |-> TRUE, str |-> ""]
Ptr(str) == [null |-> FALSE, str |-> str]

\* CStr::from_ptr(p).to_string_lossy() on a pointer that is not null
to_string_lossy(p) == p.str

Bool32(value) == [kind |-> "Bool32", value |-> value]

\* The severities the driver sends: the four single flags, and a value that
\* is none of them.
Severities == {"ERROR", "WARNING", "INFO", "VERBOSE", "ERROR|WARNING"}

\* The match on message_severity.
\* Faulty variant: the match whose `_` arm gives the error level.
Level_unrecognized_as_error(message_severity) ==
    CASE message_severity = "ERROR" -> "Error"
      [] message_severity = "WARNING" -> "Warn"
      [] message_severity = "INFO" -> "Info"
      [] message_severity = "VERBOSE" -> "Trace"
      [] OTHER -> "Error"

Level(message_severity) ==
    CASE message_severity = "ERROR" -> "Error"
      [] message_severity = "WARNING" -> "Warn"
      [] message_severity = "INFO" -> "Info"
      [] message_severity = "VERBOSE" -> "Trace"
      [] OTHER -> "Warn"

HexDigits == << "0", "1", "2", "3", "4", "5", "6", "7",
                "8", "9", "a", "b", "c", "d", "e", "f" >>

\* {:x} of a number that is not negative: its digits, the first one first.
RECURSIVE Hex(_)
Hex(n) ==
    IF n < 16 THEN << HexDigits[n + 1] >>
    ELSE Hex(n \div 16) \o << HexDigits[(n % 16) + 1] >>

\* names.join(sep): the names with the separator between each two.
RECURSIVE Join(_, _)
Join(names, sep) ==
    IF Len(names) = 0 THEN << >>
    ELSE IF Len(names) = 1 THEN << names[1] >>
    ELSE << names[1], sep >> \o Join(Tail(names), sep)

\* The flat_map over the labels: the names of the labels that have one.
LabelNames(labels) ==
    LET Named(l) == ~l.p_label_name.null
        named == SelectSeq(labels, Named)
    IN  [k \in 1 .. Len(named) |-> to_string_lossy(named[k].p_label_name)]

\* The map over the objects: one formatted entry for each object.
ObjectNames(objects) ==
    [k \in 1 .. Len(objects) |->
        << "(type: {:?}, hndl: 0x{:x}, name: {})",
           objects[k].object_type, Hex(objects[k].object_handle),
           IF objects[k].p_object_name.null THEN "?"
           ELSE to_string_lossy(objects[k].p_object_name) >>]

MessageFormat == "{:?} [{} (0x{:x})]\n\t{}"
QueuesFormat == "\tqueues: {}"
CommandBuffersFormat == "\tcommand buffers: {}"
ObjectsFormat == "\tobjects: {}"

\* panicking is thread::panicking() at the time of the call; cd is the
\* callback data, its three arrays as sequences (the counts are their
\* lengths).
debug_utils_messenger_callback(panicking, message_severity, message_type, cd) ==
    IF panicking
    THEN [ ret |-> Bool32(VK_FALSE), log |-> << >> ]
    ELSE
    LET level == Level(message_severity)
        message_id_name == IF cd.p_message_id_name.null THEN ""
                           ELSE to_string_lossy(cd.p_message_id_name)
        message == IF cd.p_message.null THEN "" ELSE to_string_lossy(cd.p_message)
    IN  [ ret |-> Bool32(VK_FALSE),
          log |-> << LogRecord(level, << MessageFormat, message_type, message_id_name,
                                         Hex(cd.message_id_number), message >>) >>
                  \o (IF Len(cd.queue_labels) # 0
                      THEN << LogRecord(level, << QueuesFormat,
                                                  Join(LabelNames(cd.queue_labels), ", ") >>) >>
                      ELSE << >>)
                  \o (IF Len(cd.cmd_buf_labels) # 0
                      THEN << LogRecord(level, << CommandBuffersFormat,
                                                  Join(LabelNames(cd.cmd_buf_labels), ", ") >>) >>
                      ELSE << >>)
                  \o (IF Len(cd.objects) # 0
                      THEN << LogRecord(level, << ObjectsFormat,
                                                  Join(ObjectNames(cd.objects), ", ") >>) >>
                      ELSE << >>) ]

\* The sequences of at most MaxLabels elements of a set.
SeqsUpTo(S) == UNION { [1 .. n -> S] : n \in 0 .. MaxLabels }

QueueLabels == SeqsUpTo({ [p_label_name |-> NullPtr], [p_label_name |-> Ptr("graphics")] })

CmdBufLabels == SeqsUpTo({ [p_label_name |-> NullPtr], [p_label_name |-> Ptr("frame")] })

\* The objects of a message: the k-th has handle 16 * k + k, a buffer's or
\* an image's, named or not.
Objects ==
    { [k \in 1 .. Len(names) |->
          [object_type |-> IF k % 2 = 1 THEN "BUFFER" ELSE "IMAGE",
           object_handle |-> 16 * k + k,
           p_object_name |-> names[k]]] : names \in SeqsUpTo({NullPtr, Ptr("vertices")}) }

\* The messages the driver delivers.
CallbackData ==
    [ p_message_id_name : {NullPtr, Ptr("VUID-vkQueueSubmit")},
      message_id_number : {255},
      p_message : {NullPtr, Ptr("validation failed")},
      queue_labels : QueueLabels,
      cmd_buf_labels : CmdBufLabels,
      objects : Objects ]

\* The records of a log that carry the message itself.
MessageRecords(records) ==
    LET IsMessage(rec) == rec.what[1] = MessageFormat
    IN  SelectSeq(records, IsMessage)

\* One delivery of the message op.message by the driver.  op.n counts the
\* deliveries, op.quiet those made on an unwinding thread, op.forwarded the
\* message records written so far.
DebugUtilsMessengerCallback ==
    /\ driver.messenger = "live"
    /\ op.n < MaxCallbacks
    /\ \E panicking \in BOOLEAN :
       \E out \in { debug_utils_messenger_callback(panicking, op.message_severity,
                                                   op.message_type, op.cd) } :
          /\ ret' = out.ret
          /\ log' = out.log
          /\ calls' = << >>
          /\ op' = [op EXCEPT !.name = "debug_utils_messenger_callback",
                              !.n = @ + 1,
                              !.panicking = panicking,
                              !.quiet = IF panicking THEN @ + 1 ELSE @,
                              !.forwarded = @ + Len(MessageRecords(out.log))]
    /\ UNCHANGED <<target, instance, extensions, flags, debug_utils,
                   get_physical_device_properties, strong, surfaces, swapchain,
                   driver, superseded>>

\* An Instance with the messenger registered, and the message the driver is
\* about to deliver.
InitCallback ==
    /\ target = "linux"
    /\ instance = "live"
    /\ extensions = {"VK_KHR_surface", DebugUtilsName}
    /\ flags = {"DEBUG"}
    /\ debug_utils = "Some"
    /\ get_physical_device_properties = "None"
    /\ strong = 1
    /\ surfaces = {}
    /\ swapchain = NoSwapchain
    /\ driver = [DriverInit EXCEPT !.instance = "live", !.messenger = "live"]
    /\ superseded = {}
    /\ \E message_severity \in Severities, cd \in CallbackData :
          op = [name |-> "none", n |-> 0, panicking |-> FALSE, quiet |-> 0,
                forwarded |-> 0, message_severity |-> message_severity,
                message_type |-> "VALIDATION", cd |-> cd]
    /\ calls = << >>
    /\ ret = Unit
    /\ log = << >>

NextCallback == DebugUtilsMessengerCallback

SpecCallback == InitCallback /\ [][NextCallback]_vars

(***************************************************************************)
(* The actions on Surface 1.                                               *)
(***************************************************************************)
\* The handle the driver allots to the next swapchain.
NextId == 1 + Cardinality({ i \in SwapchainIds : driver.swapchain[i] # "none" })

Configure ==
    /\ 1 \in surfaces
    /\ NextId <= MaxSwapchains
    /\ \E vendor_id \in Vendors, config \in Configs, create \in CreateResults :
       \E idle \in IF swapchain # NoSwapchain THEN FenceResults ELSE {"SUCCESS"},
          images \in IF create = "SUCCESS" THEN ImageSeqs(NextId) ELSE {<< >>},
          rel \in IF create # "SUCCESS" /\ swapchain # NoSwapchain
                  THEN BOOLEAN ELSE {FALSE} :
       \E out \in { configure(swapchain, vendor_id, config,
                               [ idle |-> idle, id |-> NextId, create |-> create,
                                 images |-> images, release_on_failure |-> rel ]) } :
              /\ swapchain' = out.swapchain
              /\ calls' = out.calls
              /\ ret' = out.ret
              /\ driver' = DriverRun(driver, out.calls)
              /\ superseded' = IF out.ret = OkUnit /\ swapchain # NoSwapchain
                               THEN superseded \cup {swapchain.raw}
                               ELSE superseded
              /\ op' = [name |-> "configure", config |-> config,
                        vendor_id |-> vendor_id]
    /\ UNCHANGED instanceVars

Unconfigure ==
    /\ 1 \in surfaces
    /\ \E idle \in IF swapchain # NoSwapchain THEN FenceResults ELSE {"SUCCESS"} :
       \E out \in { unconfigure(swapchain, [idle |-> idle]) } :
              /\ swapchain' = out.swapchain
              /\ calls' = out.calls
              /\ ret' = out.ret
              /\ driver' = DriverRun(driver, out.calls)
              /\ op' = [name |-> "unconfigure"]
    /\ UNCHANGED <<instanceVars, superseded>>

\* The driver answers only the calls that are made: an index comes with a
\* successful acquisition, a wait result with a wait, a reset result with a
\* reset.
AcquireTexture ==
    /\ 1 \in surfaces
    /\ \E timeout_ms \in Timeouts,
          acquire \in IF swapchain # NoSwapchain THEN AcquireResults ELSE {"SUCCESS"} :
       \E index \in IF swapchain # NoSwapchain /\ acquire \notin AcquireErrors
                    THEN Indices ELSE {0} :
       \E wait \in IF swapchain # NoSwapchain /\ acquire \notin AcquireErrors
                       /\ ~IntelGuard(swapchain.vendor_id, index)
                   THEN FenceResults ELSE {"SUCCESS"} :
       \E reset \in IF swapchain # NoSwapchain /\ acquire \notin AcquireErrors
                        /\ ~IntelGuard(swapchain.vendor_id, index)
                        /\ wait = "SUCCESS"
                    THEN FenceResults ELSE {"SUCCESS"} :
       \E out \in { acquire_texture(swapchain, timeout_ms,
                                     [acquire |-> acquire, index |-> index,
                                      wait |-> wait, reset |-> reset]) } :
              /\ calls' = out.calls
              /\ ret' = out.ret
              /\ driver' = DriverRun(driver, out.calls)
              /\ op' = [name |-> "acquire_texture", timeout_ms |-> timeout_ms]
    /\ UNCHANGED <<instanceVars, swapchain, superseded>>

DiscardTexture ==
    /\ 1 \in surfaces
    /\ \E out \in { discard_texture(swapchain) } :
           /\ swapchain' = out.swapchain
           /\ calls' = out.calls
           /\ ret' = out.ret
           /\ driver' = DriverRun(driver, out.calls)
           /\ op' = [name |-> "discard_texture"]
    /\ UNCHANGED <<instanceVars, superseded>>

\* The state once an Instance exists and create_surface has made Surface 1.
Init ==
    /\ target = "linux"
    /\ instance = "live"
    /\ extensions = {"VK_KHR_surface", "VK_KHR_xlib_surface"}
    /\ flags = {}
    /\ debug_utils = "None"
    /\ get_physical_device_properties = "None"
    /\ strong = 2
    /\ surfaces = {1}
    /\ swapchain = NoSwapchain
    /\ driver = [DriverInit EXCEPT !.instance = "live", !.surface_creates = 1]
    /\ superseded = {}
    /\ op = [name |-> "create_surface"]
    /\ calls = << >>
    /\ ret = OkUnit
    /\ log = << >>

Next == Configure \/ Unconfigure \/ AcquireTexture \/ DiscardTexture \/ DestroySurface

Spec == Init /\ [][Next]_vars

(***************************************************************************)
(* Properties of the swapchain controller (specification Spec).            *)
(***************************************************************************)
Acquired(c) == c.fn = "acquire_next_image" /\ c.res \in {"SUCCESS", "SUBOPTIMAL_KHR"}

SurfaceErrorVariants == {"Outdated", "Lost", "Device", "Other"}

\* C1: every swapchain superseded by a later successful configure has had
\* its fence destroyed exactly once and its native swapchain destroyed
\* exactly once, both are no longer live, and the superseding configure
\* drained it first: device wait-idle, then the fence's destruction, then the
\* creation call that is handed the old swapchain, then the old swapchain's
\* destruction.
C1_SupersededReleasedOnce ==
    /\ \A i \in superseded :
          /\ driver.fence_destroys[i] = 1
          /\ driver.swapchain_destroys[i] = 1
          /\ driver.fence[i] = "destroyed"
          /\ driver.swapchain[i] = "destroyed"
    /\ (op.name = "configure" /\ ret = OkUnit /\ Len(calls) > 2) =>
          LET old == calls[3].arg
          IN  /\ old \in superseded
              /\ calls[1].fn = "device_wait_idle"
              /\ calls[2] = VoidCall("destroy_fence", old)
              /\ calls[3].fn = "create_swapchain"
              /\ calls[4] = VoidCall("destroy_swapchain", old)
              /\ \A k \in 5 .. Len(calls) :
                    calls[k].fn \notin {"destroy_fence", "destroy_swapchain"}

\* Two configure calls have succeeded after the first one: swapchains 1 and 2
\* are superseded and the third is the active one.
C1_Witness ==
    /\ superseded = {1, 2}
    /\ swapchain # NoSwapchain
    /\ op.name = "configure"

\* C2: when the creation call inside configure fails, configure returns an
\* Err holding a SurfaceError and the Surface holds no swapchain.
C2_FailedConfigureUnconfigures ==
    (op.name = "configure"
        /\ \E k \in 1 .. Len(calls) :
              calls[k].fn = "create_swapchain" /\ calls[k].res # "SUCCESS")
    => /\ ret.kind = "Err"
       /\ ret.err.variant \in SurfaceErrorVariants
       /\ swapchain = NoSwapchain

\* A configure on a Configured surface (it drained the old swapchain) whose
\* creation call failed.
C2_Witness ==
    /\ op.name = "configure"
    /\ Len(calls) >= 3
    /\ calls[1].fn = "device_wait_idle"
    /\ calls[3].fn = "create_swapchain"
    /\ calls[3].res = "ERROR_OUT_OF_DEVICE_MEMORY"
    /\ ret.kind = "Err"

\* C3: unconfigure on a Configured surface issues exactly device wait-idle,
\* the destruction of the swapchain's fence and the destruction of the native
\* swapchain, in this order, and leaves the surface Unconfigured; on an
\* Unconfigured surface it issues no driver call and changes neither the
\* surface nor the driver's handles.
C3_UnconfigureOrder ==
    [][ op'.name = "unconfigure" =>
          IF swapchain # NoSwapchain
          THEN /\ Len(calls') = 3
               /\ calls'[1].fn = "device_wait_idle"
               /\ calls'[2] = VoidCall("destroy_fence", swapchain.fence)
               /\ calls'[3] = VoidCall("destroy_swapchain", swapchain.raw)
               /\ swapchain' = NoSwapchain
               /\ driver'.fence[swapchain.fence] = "destroyed"
               /\ driver'.swapchain[swapchain.raw] = "destroyed"
          ELSE /\ calls' = << >>
               /\ swapchain' = NoSwapchain
               /\ driver' = driver
               /\ superseded' = superseded ]_vars

\* An unconfigure that found a swapchain and released it.
C3_Witness ==
    /\ op.name = "unconfigure"
    /\ Len(calls) = 3
    /\ calls[3].fn = "destroy_swapchain"
    /\ swapchain = NoSwapchain

\* C4: every error the driver reports for the image acquisition gives the
\* one outcome of the table: TIMEOUT gives Ok(None), NOT_READY and
\* ERROR_OUT_OF_DATE_KHR give Outdated, ERROR_SURFACE_LOST_KHR gives Lost,
\* any other error gives the device error wrapping that code; no texture is
\* returned and no further driver call is made.
C4_AcquireErrorTable ==
    (op.name = "acquire_texture" /\ calls # << >> /\ ~Acquired(calls[1])) =>
        LET e == calls[1].res
        IN  /\ calls[1].fn = "acquire_next_image"
            /\ Len(calls) = 1
            /\ ret.kind # "OkSome"
            /\ e = "TIMEOUT" => ret = OkNone
            /\ e \in {"NOT_READY", "ERROR_OUT_OF_DATE_KHR"} =>
                  ret = [kind |-> "Err", err |-> [variant |-> "Outdated", code |-> ""]]
            /\ e = "ERROR_SURFACE_LOST_KHR" =>
                  ret = [kind |-> "Err", err |-> [variant |-> "Lost", code |-> ""]]
            /\ e \notin {"TIMEOUT", "NOT_READY", "ERROR_OUT_OF_DATE_KHR",
                         "ERROR_SURFACE_LOST_KHR"} =>
                  ret = [kind |-> "Err", err |-> [variant |-> "Device", code |-> e]]

\* The driver reported not-ready and the caller got Outdated.
C4_Witness ==
    /\ op.name = "acquire_texture"
    /\ calls # << >>
    /\ calls[1].res = "NOT_READY"
    /\ ret.kind = "Err"
    /\ ret.err.variant = "Outdated"

\* C5: after a successful acquisition, an Intel device with an index above
\* 0x100 gives Outdated with no texture and no fence wait; any other vendor,
\* or an index at or below 0x100, goes on to wait on the fence.
C5_IntelGuard ==
    (op.name = "acquire_texture" /\ calls # << >> /\ Acquired(calls[1])) =>
        IF swapchain.vendor_id = IntelVendor /\ calls[1].out > SanityBound
        THEN /\ ret = [kind |-> "Err", err |-> [variant |-> "Outdated", code |-> ""]]
             /\ Len(calls) = 1
        ELSE /\ Len(calls) >= 2
             /\ calls[2].fn = "wait_for_fences"
             /\ calls[2].h = swapchain.fence

\* An Intel device reported success with index 0x101.
C5_Witness ==
    /\ op.name = "acquire_texture"
    /\ calls # << >>
    /\ calls[1].res = "SUCCESS"
    /\ calls[1].out = SanityBound + 1
    /\ swapchain.vendor_id = IntelVendor
    /\ ret.kind = "Err"

\* C6: when acquire_texture returns a texture its driver calls were exactly
\* a successful acquisition signalling the swapchain's fence, a successful
\* wait on that fence and a successful reset of it, in this order, and the
\* fence is unsignaled.
C6_FenceProtocol ==
    (op.name = "acquire_texture" /\ ret.kind = "OkSome") =>
        /\ Len(calls) = 3
        /\ Acquired(calls[1])
        /\ calls[1].h = swapchain.fence
        /\ calls[2].fn = "wait_for_fences"
        /\ calls[2].h = swapchain.fence
        /\ calls[2].res = "SUCCESS"
        /\ calls[3].fn = "reset_fences"
        /\ calls[3].h = swapchain.fence
        /\ calls[3].res = "SUCCESS"
        /\ driver.fence[swapchain.fence] = "unsignaled"

\* A texture was returned.
C6_Witness ==
    /\ op.name = "acquire_texture"
    /\ ret.kind = "OkSome"
    /\ Len(calls) = 3

\* C7: acquire_texture with timeout 0 to which the driver answers TIMEOUT
\* hands the driver a timeout of 0, returns Ok(None) and makes no other
\* driver call (no fence wait).
C7_ZeroTimeout ==
    (op.name = "acquire_texture" /\ op.timeout_ms = 0 /\ calls # << >>
        /\ calls[1].res = "TIMEOUT")
    => /\ calls[1].arg = 0
       /\ ret = OkNone
       /\ \A k \in 1 .. Len(calls) : calls[k].fn # "wait_for_fences"
       /\ Len(calls) = 1

\* Timeout 0 on a Configured surface, the driver reports TIMEOUT.
C7_Witness ==
    /\ op.name = "acquire_texture"
    /\ op.timeout_ms = 0
    /\ swapchain # NoSwapchain
    /\ calls # << >>
    /\ calls[1].res = "TIMEOUT"
    /\ ret = OkNone

\* The driver calls of an acquisition all succeeded and the index is a
\* position of the image sequence.
AllSucceeded(cs, sc) ==
    /\ cs # << >>
    /\ Acquired(cs[1])
    /\ cs[1].out < Len(sc.images)
    /\ \A k \in 2 .. Len(cs) : cs[k].res = "SUCCESS"

\* C8: on a Configured surface, when the driver calls of acquire_texture
\* succeed with image index i (a position of the image sequence) and
\* suboptimal hint s, acquire_texture returns the image at position i with
\* the configured format and usage and the flag s (false without a hint);
\* an unconfigure that follows destroys the native swapchain and leaves the
\* surface Unconfigured.
C8_AcquireThenUnconfigure ==
    [][ /\ (op'.name = "acquire_texture" /\ swapchain # NoSwapchain
              /\ AllSucceeded(calls', swapchain))
           => /\ ret'.kind = "OkSome"
              /\ ret'.texture.index = calls'[1].out
              /\ ret'.texture.raw = swapchain.images[calls'[1].out + 1]
              /\ ret'.texture.format = swapchain.config.format
              /\ ret'.texture.usage = swapchain.config.usage
              /\ ret'.suboptimal = (calls'[1].res = "SUBOPTIMAL_KHR")
              /\ op.name = "configure" =>
                    /\ ret'.texture.format = op.config.format
                    /\ ret'.texture.usage = op.config.usage
        /\ (op.name = "acquire_texture" /\ ret.kind = "OkSome"
              /\ op'.name = "unconfigure")
           => /\ swapchain' = NoSwapchain
              /\ driver'.swapchain[swapchain.raw] = "destroyed"
              /\ driver'.swapchain_destroys[swapchain.raw] = 1
              /\ ret' = Unit ]_vars

\* A texture for index 1 with no suboptimal hint, from a two-image swapchain.
C8_Witness ==
    /\ op.name = "acquire_texture"
    /\ op.timeout_ms = 1000
    /\ ret.kind = "OkSome"
    /\ ret.texture.index = 1
    /\ ret.texture.raw = swapchain.images[2]
    /\ ret.suboptimal = FALSE

\* C19: acquire_texture on a Surface that holds no swapchain (never
\* configured, unconfigured, or left so by a failed configure) makes no
\* driver call and returns no texture; the unwrap panics.
C19_AcquireUnconfigured ==
    (op.name = "acquire_texture" /\ swapchain = NoSwapchain) =>
        /\ calls = << >>
        /\ ret.kind \notin {"OkSome", "OkNone", "Ok"}
        /\ ret.kind = "Panic"

\* An acquisition on a Surface that had a swapchain and holds none now.
C19_Witness ==
    /\ op.name = "acquire_texture"
    /\ swapchain = NoSwapchain
    /\ driver.fence[1] = "destroyed"
    /\ driver.swapchain[1] # "none"
    /\ ret.kind = "Panic"

\* C20: at every return of acquire_texture on a configured Surface, whatever
\* the outcome, the fence of the swapchain is unsignaled, with no signal
\* pending on it.
C20_FenceUnsignaledAtReturn ==
    (op.name = "acquire_texture" /\ swapchain # NoSwapchain) =>
        driver.fence[swapchain.fence] = "unsignaled"

\* C22: after destroy_surface on Surface 1, whether it held a swapchain or
\* not, no native swapchain and no fence made for it is left undestroyed.
C22_DestroySurfaceLeavesNothing ==
    (op.name = "destroy_surface" /\ op.surface = 1) =>
        \A i \in SwapchainIds :
            /\ driver.swapchain[i] \in {"none", "destroyed"}
            /\ driver.fence[i] \in {"none", "destroyed"}

\* C23: over any series of configure, unconfigure and acquire_texture calls
\* on the Surface, failed configures included, every fence is destroyed at
\* most once, and every handle acquire_texture hands to the driver is one of
\* a fence and a native swapchain that exist and have not been destroyed.
C23_NoDestroyedHandleUsed ==
    /\ \A i \in SwapchainIds : driver.fence_destroys[i] <= 1
    /\ (op.name = "acquire_texture" /\ calls # << >>) =>
          /\ \A k \in 1 .. Len(calls) :
                /\ calls[k].fn \in {"acquire_next_image", "wait_for_fences", "reset_fences"}
                /\ calls[k].h = swapchain.fence
                /\ driver.fence[calls[k].h] \in {"unsignaled", "pending", "signaled"}
                /\ driver.fence_destroys[calls[k].h] = 0
          /\ driver.swapchain[swapchain.raw] = "live"
          /\ driver.swapchain_destroys[swapchain.raw] = 0

\* An acquisition on the third swapchain, after the first was removed by an
\* unconfigure or a failed configure and the second was superseded.
C23_Witness ==
    /\ op.name = "acquire_texture"
    /\ ret.kind = "OkSome"
    /\ superseded = {2}
    /\ swapchain.raw = 3
    /\ driver.fence[1] = "destroyed"
    /\ driver.fence[2] = "destroyed"

\* C24: acquire_texture and discard_texture leave the Surface as it was,
\* whatever they return: the same swapchain with the same configuration and
\* image sequence (or none), and no native swapchain made or destroyed; as
\* long as the Surface exists its swapchain changes only in a configure or
\* an unconfigure.
C24_AcquireDiscardKeepSwapchain ==
    [][ /\ op'.name \in {"acquire_texture", "discard_texture"} =>
              /\ swapchain' = swapchain
              /\ surfaces' = surfaces
              /\ driver'.swapchain = driver.swapchain
              /\ driver'.swapchain_destroys = driver.swapchain_destroys
              /\ driver'.fence_destroys = driver.fence_destroys
        /\ (swapchain' # swapchain /\ 1 \in surfaces') =>
              op'.name \in {"configure", "unconfigure"} ]_vars

\* An acquisition on a Configured surface that returned Lost.
C24_Witness ==
    /\ op.name = "acquire_texture"
    /\ swapchain # NoSwapchain
    /\ ret.kind = "Err"
    /\ ret.err.variant = "Lost"
    /\ driver.swapchain[swapchain.raw] = "live"

(***************************************************************************)
(* Properties of the instance's lifetime (specification SpecInstance).     *)
(***************************************************************************)
\* C9: the driver instance and the messenger are each destroyed at most
\* once; once the shared state is dropped, with a registration the messenger
\* was destroyed first and the instance handle second, and without one only
\* the instance handle was destroyed.
C9_TeardownOrder ==
    /\ driver.instance_destroys <= 1
    /\ driver.messenger_destroys <= 1
    /\ (instance = "dropped" /\ surfaces = {}) =>
          /\ driver.instance_destroys = 1
          /\ IF driver.messenger # "none"
             THEN driver.teardown =
                    << "destroy_debug_utils_messenger", "destroy_instance" >>
             ELSE driver.teardown = << "destroy_instance" >>
    /\ driver.messenger = "destroyed" => driver.teardown # << >>
    /\ driver.teardown # << >> => strong = 0

\* The shared state of an Instance with a registration has been dropped.
C9_Witness ==
    /\ instance = "dropped"
    /\ surfaces = {}
    /\ driver.messenger = "destroyed"
    /\ driver.instance = "destroyed"

\* C10: every live holder (the Instance, each Surface) owns one strong
\* reference; the driver instance is destroyed exactly when the last holder
\* has gone, so never while the Instance or a Surface is alive.
C10_SurfaceKeepsConnection ==
    /\ instance \in {"live", "dropped"} =>
          strong = Cardinality(surfaces) + (IF instance = "live" THEN 1 ELSE 0)
    /\ driver.instance = "destroyed" => (surfaces = {} /\ instance = "dropped")
    /\ (instance = "dropped" /\ surfaces = {}) => driver.instance = "destroyed"
    /\ (surfaces # {} \/ instance = "live") => driver.instance = "live"

\* The Instance went first; the last Surface, dropped later, released the
\* connection.
C10_Witness ==
    /\ op.name \in {"drop_surface"}
    /\ instance = "dropped"
    /\ surfaces = {}
    /\ driver.surface_creates = 2
    /\ driver.instance = "destroyed"

\* C12: from_raw given the oldest version and an extension list without the
\* storage buffer storage class extension fails with InstanceError, whatever
\* its flags and the rest of the list, and creates no messenger: it makes no
\* driver call and no Instance comes to exist.
C12_FromRawRejects ==
    (/\ op.name = "from_raw"
     /\ op.driver_api_version = API_VERSION_1_0
     /\ StorageBufferStorageClassName \notin op.extensions) =>
        /\ ret = [kind |-> "Err", err |-> [variant |-> "InstanceError", code |-> ""]]
        /\ calls = << >>
        /\ driver.messenger = "none"
        /\ debug_utils = "None"
        /\ instance = "failed"
        /\ strong = 0

\* from_raw rejected a list that asked for the debug messenger.
C12_Witness ==
    /\ op.name = "from_raw"
    /\ op.driver_api_version = API_VERSION_1_0
    /\ StorageBufferStorageClassName \notin op.extensions
    /\ DebugUtilsName \in op.extensions
    /\ "DEBUG" \in op.flags
    /\ ret.kind = "Err"

\* C16: for every window-handle variant create_surface handles on the
\* target, when the Instance has not accepted the variant's surface
\* extension, create_surface returns InstanceError and makes no driver call:
\* it neither attempts the creation nor panics.
C16_MissingSurfaceExtension ==
    (/\ op.name = "create_surface"
     /\ op.token \in TargetTokens(target)
     /\ SurfaceExtension(op.token) \notin extensions) =>
        /\ ret = [kind |-> "Err", err |-> [variant |-> "InstanceError", code |-> ""]]
        /\ calls = << >>

(***************************************************************************)
(* Properties of the negotiation (specification SpecInit).                 *)
(***************************************************************************)
\* The calls of the last handler to one entry point.
CallsTo(fn) == { k \in 1 .. Len(calls) : calls[k].fn = fn }

\* What the loader enumerated during the last handler, through one entry
\* point.
Enumerated(fn) == UNION { calls[k].out : k \in { j \in CallsTo(fn) : calls[j].res = "SUCCESS" } }

\* C11: the negotiation accepts nothing the driver did not list: every
\* extension required_extensions returns is in the list enumerated during
\* that call, and every layer and every extension init hands to the instance
\* creation (and keeps in the Instance) is in the list enumerated for it.
C11_NoPhantomAcceptance ==
    /\ (op.name = "required_extensions" /\ ret.kind = "Ok") =>
           Elems(ret.value) \subseteq Enumerated("enumerate_instance_extension_properties")
    /\ op.name = "init" =>
           /\ \A k \in CallsTo("create_instance") :
                 /\ Elems(calls[k].arg.layers)
                        \subseteq Enumerated("enumerate_instance_layer_properties")
                 /\ Elems(calls[k].arg.extensions)
                        \subseteq Enumerated("enumerate_instance_extension_properties")
           /\ extensions \subseteq Enumerated("enumerate_instance_extension_properties")

\* init reached the instance creation although the driver lists neither the
\* validation layer nor the debug extension that the flags ask for.
C11_Witness ==
    /\ op.name = "init"
    /\ CallsTo("create_instance") # {}
    /\ op.desc.flags = {"DEBUG", "VALIDATION"}
    /\ ValidationLayerName \notin op.r.instance_layers
    /\ DebugUtilsName \notin op.r.instance_extensions
    /\ "VK_KHR_display" \in op.r.instance_extensions
    /\ instance = "live"

\* The extension enumeration of the last handler succeeded.
ExtensionsEnumerated ==
    \E k \in CallsTo("enumerate_instance_extension_properties") : calls[k].res = "SUCCESS"

\* C13 as stated: required_extensions fails with InstanceError when a
\* version-1.0 driver does not list the storage buffer storage class
\* extension.
C13_Original ==
    (/\ op.name = "required_extensions"
     /\ op.driver_api_version = API_VERSION_1_0
     /\ ExtensionsEnumerated
     /\ StorageBufferStorageClassName
            \notin Enumerated("enumerate_instance_extension_properties")) =>
        ret = [kind |-> "Err", err |-> [variant |-> "InstanceError", code |-> ""]]

\* C13, amended: required_extensions drops every wanted entry the driver does
\* not list, the storage buffer storage class extension on version 1.0
\* included, and returns the rest without failing; the missing mandatory
\* entry is fatal in init, which on a version-1.0 driver that does not list
\* it returns InstanceError and yields no Instance.
C13_MissingEntries ==
    /\ (op.name = "required_extensions" /\ ExtensionsEnumerated) =>
           /\ ret.kind = "Ok"
           /\ Elems(ret.value) =
                  Elems(WantedExtensions(target, op.driver_api_version, op.flags))
                      \cap Enumerated("enumerate_instance_extension_properties")
    /\ (/\ op.name = "init"
        /\ op.r.version = "None"
        /\ ExtensionsEnumerated
        /\ StorageBufferStorageClassName
               \notin Enumerated("enumerate_instance_extension_properties")) =>
           /\ ret = [kind |-> "Err", err |-> [variant |-> "InstanceError", code |-> ""]]
           /\ instance = "failed"
           /\ CallsTo("create_debug_utils_messenger") = {}

\* init on a version-1.0 driver without the extension: the instance was
\* created, and from_raw rejected it.
C13_Witness ==
    /\ op.name = "init"
    /\ op.r.version = "None"
    /\ StorageBufferStorageClassName \notin op.r.instance_extensions
    /\ "DEBUG" \in op.desc.flags
    /\ DebugUtilsName \notin op.r.instance_extensions
    /\ \E k \in CallsTo("create_instance") :
          /\ calls[k].res = "SUCCESS"
          /\ StorageBufferStorageClassName \notin Elems(calls[k].arg.extensions)
    /\ ret.kind = "Err"

\* An enumeration of the last handler failed.
EnumerationFailed ==
    \E k \in CallsTo("enumerate_instance_extension_properties")
                 \cup CallsTo("enumerate_instance_layer_properties") :
        calls[k].res # "SUCCESS"

\* C14 as stated: a failed enumeration of extensions or layers is not
\* propagated as an error to the caller of required_extensions or init.
C14_Original ==
    (op.name \in {"required_extensions", "init"} /\ EnumerationFailed) =>
        ret.kind # "Err"

\* C14, amended: a failed enumeration of extensions or layers is logged and
\* propagated: required_extensions and init return InstanceError straight
\* after the failed call, and init creates no instance.
C14_EnumerationFailurePropagated ==
    (op.name \in {"required_extensions", "init"} /\ EnumerationFailed) =>
        /\ ret = [kind |-> "Err", err |-> [variant |-> "InstanceError", code |-> ""]]
        /\ calls[Len(calls)].res # "SUCCESS"
        /\ CallsTo("create_instance") = {}
        /\ driver.instance = "none"
        /\ instance # "live"
        /\ log # << >> /\ log[Len(log)].level = "Info"

\* init whose extension enumeration succeeded and whose layer enumeration
\* failed.
C14_Witness ==
    /\ op.name = "init"
    /\ ExtensionsEnumerated
    /\ \E k \in CallsTo("enumerate_instance_layer_properties") : calls[k].res # "SUCCESS"
    /\ ret.kind = "Err"

\* C15: init with the VALIDATION flag, on a driver that does not list the
\* validation layer and where every other step succeeds, returns an
\* Instance; the instance creation is given no validation layer; the result,
\* the driver calls and the accepted extensions are those of init on the
\* same driver without the flag.
C15_ValidationLayerAbsent ==
    (/\ op.name = "init"
     /\ "VALIDATION" \in op.desc.flags
     /\ op.r.entry = "Ok" /\ op.r.version # "Err" /\ ~op.desc.name_nul
     /\ op.r.extensions = "SUCCESS" /\ op.r.layers = "SUCCESS"
     /\ ValidationLayerName \notin op.r.instance_layers
     /\ op.r.create = "SUCCESS" /\ op.r.messenger = "SUCCESS"
     /\ ~MissingStorageClass(DriverApiVersion(op.r.version), op.r.instance_extensions)) =>
        /\ ret = [kind |-> "Ok"]
        /\ instance = "live"
        /\ driver.instance = "live"
        /\ \E k \in CallsTo("create_instance") :
              ValidationLayerName \notin Elems(calls[k].arg.layers)
        /\ LET plain == init(target, [op.desc EXCEPT !.flags = @ \ {"VALIDATION"}], op.r)
           IN  /\ plain.ret = ret
               /\ plain.calls = calls
               /\ plain.extensions = extensions
               /\ plain.debug_utils = debug_utils
               /\ plain.get_physical_device_properties = get_physical_device_properties

\* Such an init, on a driver that lists another layer, with the debug
\* messenger created.
C15_Witness ==
    /\ op.name = "init"
    /\ op.desc.flags = {"DEBUG", "VALIDATION"}
    /\ op.r.instance_layers = {"VK_LAYER_LUNARG_api_dump"}
    /\ instance = "live"
    /\ debug_utils = "Some"
    /\ \E k \in 1 .. Len(log) : log[k].level = "Warn"

\* C21: whenever init returns, a driver instance that its creation call made
\* is owned by the Instance it returns or has been destroyed: none is left
\* alive without an owner, the rejection by from_raw included.
C21_NoInstanceLeftUnowned ==
    (op.name = "init" /\ ret.kind # "Panic" /\ driver.instance = "live") =>
        /\ instance = "live"
        /\ ret.kind = "Ok"

(***************************************************************************)
(* Properties of the diagnostics callback (specification SpecCallback).    *)
(***************************************************************************)
\* C17: the callback returns FALSE on every invocation; on an unwinding
\* thread it writes no log record; otherwise its first record is the message
\* (kind, id name, id number, text; "" for a null id name or text) at the
\* level of the severity, the warning level for a severity that is none of
\* the four; and every delivery off an unwinding thread has written one
\* message record, repeated deliveries of one message included.
C17_CallbackForwards ==
    op.name = "debug_utils_messenger_callback" =>
        /\ ret = [kind |-> "Bool32", value |-> 0]
        /\ op.panicking => log = << >>
        /\ ~op.panicking =>
              /\ Len(log) >= 1
              /\ log[1].what =
                     << MessageFormat, op.message_type,
                        IF op.cd.p_message_id_name.null THEN ""
                        ELSE op.cd.p_message_id_name.str,
                        << "f", "f" >>,
                        IF op.cd.p_message.null THEN "" ELSE op.cd.p_message.str >>
              /\ op.message_severity = "ERROR" => log[1].level = "Error"
              /\ op.message_severity = "WARNING" => log[1].level = "Warn"
              /\ op.message_severity = "INFO" => log[1].level = "Info"
              /\ op.message_severity = "VERBOSE" => log[1].level = "Trace"
              /\ op.message_severity \notin {"ERROR", "WARNING", "INFO", "VERBOSE"} =>
                     log[1].level = "Warn"
        /\ op.forwarded = op.n - op.quiet

\* The same message, of a severity that is none of the four, delivered
\* twice off an unwinding thread and forwarded twice.
C17_Witness ==
    /\ op.name = "debug_utils_messenger_callback"
    /\ op.message_severity = "ERROR|WARNING"
    /\ op.n = 2
    /\ op.quiet = 0
    /\ op.forwarded = 2
    /\ log # << >>

\* The second elements of the records of the last call written with one
\* format: what was formatted into it.
Rendered(format) ==
    { log[k].what[2] : k \in { j \in 1 .. Len(log) : log[j].what[1] = format } }

\* The list the claim expects for labels: one name for each label, in order,
\* `?` for a label without a name.
ExpectedLabelNames(labels) ==
    [k \in 1 .. Len(labels) |->
        IF labels[k].p_label_name.null THEN "?" ELSE labels[k].p_label_name.str]

\* C18: for each of the three kinds (queue labels, command buffer labels,
\* objects) that a message carries, the list written to the log has one
\* entry for each label supplied, in order, and `?` stands for the name of a
\* label that has none.
C18_OneEntryPerLabel ==
    (op.name = "debug_utils_messenger_callback" /\ ~op.panicking) =>
        /\ Len(op.cd.queue_labels) # 0 =>
              Rendered(QueuesFormat) = { Join(ExpectedLabelNames(op.cd.queue_labels), ", ") }
        /\ Len(op.cd.cmd_buf_labels) # 0 =>
              Rendered(CommandBuffersFormat) =
                  { Join(ExpectedLabelNames(op.cd.cmd_buf_labels), ", ") }
        /\ Len(op.cd.objects) # 0 =>
              Rendered(ObjectsFormat) =
                  { Join([k \in 1 .. Len(op.cd.objects) |->
                             << "(type: {:?}, hndl: 0x{:x}, name: {})",
                                op.cd.objects[k].object_type,
                                Hex(op.cd.objects[k].object_handle),
                                IF op.cd.objects[k].p_object_name.null THEN "?"
                                ELSE op.cd.objects[k].p_object_name.str >>], ", ") }

====
